---- MODULE Spec2Model ----
(***************************************************************************)
(* A model of the American Gut survey scraper: the dashboard's helpers     *)
(* (Github-app.py: sanitize_sheet_name, parse_survey_page, scrape_topic,   *)
(* filter_responses, export_excel) and the batch script                    *)
(* (biosample_scraper.py: main).                                           *)
(*                                                                         *)
(* A Python str is a sequence of one-character strings; None is a value    *)
(* no such sequence equals.  An HTML document (the soup) is the sequence   *)
(* of its top-level elements in document order.                            *)
(***************************************************************************)
EXTENDS Integers, Sequences, FiniteSets, TLC

VARIABLES
    pc,          \* position of the running function
    name,        \* sanitize_sheet_name: its argument
    sheet,       \* sanitize_sheet_name: its return value
    soup,        \* parse_survey_page: the parsed document
    url,         \* parse_survey_page: the url argument
    survey,      \* parse_survey_page: the returned table
    pages,       \* scrape_topic: the search results, with what each fetch does
    page_i,      \* scrape_topic: index of the next search result of the loop
    rows,        \* scrape_topic: the list of parsed tables
    fetched,     \* scrape_topic: indexes of the results fetch_page was called on
    result,      \* scrape_topic: the returned table
    df,          \* export_excel: the filtered table (with its id column)
    groups,      \* export_excel: the group keys the loop has still to write
    sheets,      \* export_excel: names of the worksheets added to the workbook
    argv,        \* batch script: sys.argv
    lines,       \* batch script: the lines of the input file
    ids,         \* batch script: the identifiers read
    id_i,        \* batch script: index of the next identifier of the loop
    output_rows, \* batch script: the rows built so far
    csv          \* batch script: the file written (columns and rows)

vars == <<pc, name, sheet, soup, url, survey, pages, page_i, rows, fetched,
          result, df, groups, sheets, argv, lines, ids, id_i, output_rows, csv>>

sanVars    == <<name, sheet>>
parseVars  == <<soup, url, survey>>
scrapeVars == <<pages, page_i, rows, fetched, result>>
excelVars  == <<df, groups, sheets>>
batchVars  == <<argv, lines, ids, id_i, output_rows, csv>>

-----------------------------------------------------------------------------
(* Python values and str operations                                        *)

\* None: a one-element sequence whose element is no single character.
None == <<"<None>">>

\* The characters str.strip() removes (of those the model draws).
Whitespace == {" ", "\t", "\n"}

RECURSIVE LStrip(_)
LStrip(s) ==
    IF s # <<>> /\ Head(s) \in Whitespace THEN LStrip(Tail(s)) ELSE s

RECURSIVE RStrip(_)
RStrip(s) ==
    IF s # <<>> /\ s[Len(s)] \in Whitespace
    THEN RStrip(SubSeq(s, 1, Len(s) - 1))
    ELSE s

\* s.strip()
Strip(s) == RStrip(LStrip(s))

\* s[:n]
Prefix(s, n) == SubSeq(s, 1, IF Len(s) < n THEN Len(s) ELSE n)

\* c * n
RECURSIVE Rep(_, _)
Rep(c, n) == IF n <= 0 THEN <<>> ELSE <<c>> \o Rep(c, n - 1)

RECURSIVE Join(_, _)
\* sep.join(parts)
Join(parts, sep) ==
    IF parts = <<>> THEN <<>>
    ELSE IF Len(parts) = 1 THEN parts[1]
    ELSE parts[1] \o sep \o Join(Tail(parts), sep)

RECURSIVE Flatten(_)
\* the concatenation of a sequence of sequences
Flatten(ss) == IF ss = <<>> THEN <<>> ELSE Head(ss) \o Flatten(Tail(ss))

\* All sequences over S of length at most n.
SeqsUpTo(S, n) == UNION {[1..k -> S] : k \in 0..n}

-----------------------------------------------------------------------------
(* sanitize_sheet_name                                                     *)

\* The character class of the re.sub: : \ / ? * [ ]
InvalidChars == {":", "\\", "/", "?", "*", "[", "]"}

SheetNameLimit == 31

DefaultSheet == <<"s", "h", "e", "e", "t">>

\* re.sub(r'[:\\/?*\[\]]', '-', s)
SubInvalid(s) == [i \in 1..Len(s) |-> IF s[i] \in InvalidChars THEN "-" ELSE s[i]]

\* A slip of the slice bound: name.strip()[:32]
sanitize_sheet_name_Long(nm) ==
    LET n1 == SubInvalid(nm)
        n2 == Prefix(Strip(n1), SheetNameLimit + 1)
    IN  IF n2 # <<>> THEN n2 ELSE DefaultSheet

sanitize_sheet_name(nm) ==
    LET n1 == SubInvalid(nm)
        n2 == Prefix(Strip(n1), SheetNameLimit)
    IN  IF n2 # <<>> THEN n2 ELSE DefaultSheet

\* The components a specification does not exercise stay as constructed.
IdleSan    == name = <<>> /\ sheet = None
IdleParse  == soup = <<>> /\ url = <<>> /\ survey = None
IdleScrape == pages = <<>> /\ page_i = 1 /\ rows = <<>> /\ fetched = <<>> /\ result = None
IdleExcel  == df = <<>> /\ groups = <<>> /\ sheets = <<>>
IdleBatch  == /\ argv = 0 /\ lines = <<>> /\ ids = <<>> /\ id_i = 1
              /\ output_rows = <<>> /\ csv = None

\* Bounds of the names drawn: short names over every character class, and
\* names around the 31-character limit.
MaxNameLen == 2
MaxOver == 1

NameChars == InvalidChars \cup Whitespace \cup {"a"}

Names ==
    SeqsUpTo(NameChars, MaxNameLen)
    \cup {p \o Rep(c, k) \o q :
            p \in SeqsUpTo({" ", "a"}, 1), q \in SeqsUpTo({" ", "/", "a"}, 1),
            c \in {"a", "/"},
            k \in (SheetNameLimit - 2)..(SheetNameLimit + MaxOver)}

InitSanitize ==
    /\ pc = "sanitize"
    /\ name \in Names
    /\ sheet = None
    /\ IdleParse /\ IdleScrape /\ IdleExcel /\ IdleBatch

\* One call of sanitize_sheet_name(name).
Sanitize ==
    /\ pc = "sanitize"
    /\ sheet' = sanitize_sheet_name(name)
    /\ pc' = "done"
    /\ UNCHANGED <<name, parseVars, scrapeVars, excelVars, batchVars>>

NextSanitize == Sanitize

SpecSanitize == InitSanitize /\ [][NextSanitize]_vars

(* ---- C6 ---- *)

AllIn(s, S) == \A i \in 1..Len(s) : s[i] \in S

Min(a, b) == IF a < b THEN a ELSE b

\* What the call returns for a name with a character that is not whitespace:
\* from the first such character on, at most 31 characters up to the last
\* such character, each invalid one as "-".
SanitizedCore(nm, out) ==
    \E a, b \in 1..Len(nm) :
        /\ nm[a] \notin Whitespace /\ nm[b] \notin Whitespace
        /\ \A i \in 1..Len(nm) : (i < a \/ i > b) => nm[i] \in Whitespace
        /\ Len(out) = Min(b - a + 1, SheetNameLimit)
        /\ \A i \in 1..Len(out) :
              out[i] = IF nm[a + i - 1] \in InvalidChars THEN "-" ELSE nm[a + i - 1]

\* C6 (as amended): sanitize_sheet_name replaces each of : \ / ? * [ ] with
\* "-", trims the surrounding whitespace and truncates to 31 characters; it
\* returns the placeholder "sheet" for a name that is empty after trimming,
\* and a name made up only of invalid characters gives that many "-" (at
\* most 31), not the placeholder.
C6_Sanitize ==
    pc = "done" =>
        /\ AllIn(name, Whitespace) => sheet = DefaultSheet
        /\ ~AllIn(name, Whitespace) => SanitizedCore(name, sheet)
        /\ (name # <<>> /\ AllIn(name, InvalidChars)) =>
               sheet = Rep("-", Min(Len(name), SheetNameLimit))

\* A name of more than 31 characters, all of them invalid, has been sanitized
\* to 31 "-".
C6_Witness ==
    /\ pc = "done"
    /\ Len(name) > SheetNameLimit
    /\ AllIn(name, InvalidChars)
    /\ sheet = Rep("-", SheetNameLimit)

\* C6 as stated: a name made up only of invalid characters gives the
\* placeholder.
C6_Original ==
    pc = "done" =>
        /\ AllIn(name, Whitespace) => sheet = DefaultSheet
        /\ (~AllIn(name, Whitespace) /\ ~AllIn(name, InvalidChars)) =>
               SanitizedCore(name, sheet)
        /\ (name # <<>> /\ AllIn(name, InvalidChars)) => sheet = DefaultSheet

-----------------------------------------------------------------------------
(* The document and its text                                               *)

\* An element of the document: a table with its rows (each the texts of its
\* td/th cells), or a p, li or div with its text.
TableNode(rws) == [tag |-> "table", text |-> <<>>, rows |-> rws]
TextNode(t, s) == [tag |-> t, text |-> s, rows |-> <<>>]

\* The text nodes of an element, in document order.
NodeStrings(nd) == IF nd.tag = "table" THEN Flatten(nd.rows) ELSE <<nd.text>>

NonEmpty(s) == s # <<>>

\* soup.get_text(" ", strip=True): every text node stripped, the empty ones
\* left out, joined by one space.
GetTextStripped(sp, sep) ==
    LET strs     == Flatten([i \in 1..Len(sp) |-> NodeStrings(sp[i])])
        stripped == [i \in 1..Len(strs) |-> Strip(strs[i])]
    IN  Join(SelectSeq(stripped, NonEmpty), sep)

-----------------------------------------------------------------------------
(* The identifier patterns                                                 *)

UpperCase == <<"A", "B", "C", "D", "E", "F", "G", "H", "I", "J", "K", "L", "M",
               "N", "O", "P", "Q", "R", "S", "T", "U", "V", "W", "X", "Y", "Z">>
LowerCase == <<"a", "b", "c", "d", "e", "f", "g", "h", "i", "j", "k", "l", "m",
               "n", "o", "p", "q", "r", "s", "t", "u", "v", "w", "x", "y", "z">>
Letters == {UpperCase[i] : i \in 1..Len(UpperCase)} \cup {LowerCase[i] : i \in 1..Len(LowerCase)}
Digits == {"0", "1", "2", "3", "4", "5", "6", "7", "8", "9"}

UpperSet == {UpperCase[i] : i \in 1..Len(UpperCase)}
ToLower == [c \in UpperSet |-> LowerCase[CHOOSE i \in 1..Len(UpperCase) : UpperCase[i] = c]]

\* re.I: the lower-case form of a character.
Lower(c) == IF c \in UpperSet THEN ToLower[c] ELSE c

\* [:\t ]
SepChars == {":", "\t", " "}
\* [A-Za-z0-9_-]
TokChars == Letters \cup Digits \cup {"_", "-"}
\* [A-Za-z0-9._-]
TokDotChars == TokChars \cup {"."}

BiosampleLabel == <<"B", "i", "o", "s", "a", "m", "p", "l", "e">>
AccessionLabel == <<"A", "c", "c", "e", "s", "s", "i", "o", "n">>
SampleIdLabel  == <<"S", "a", "m", "p", "l", "e", " ", "I", "D">>
BarcodeLabel   == <<"B", "a", "r", "c", "o", "d", "e">>

\* The literal label matches the text at position i, ignoring case.
LabelAt(text, i, label) ==
    /\ i + Len(label) - 1 <= Len(text)
    /\ \A j \in 1..Len(label) : Lower(text[i + j - 1]) = Lower(label[j])

RECURSIVE SkipWhile(_, _, _)
\* The first position from k on whose character is not in S (Len + 1: none).
SkipWhile(text, k, S) ==
    IF k <= Len(text) /\ text[k] \in S THEN SkipWhile(text, k + 1, S) ELSE k

\* label[:\t ]+(tok+) matched at position i: the group, or None.
MatchAt(text, i, label, tok) ==
    IF ~LabelAt(text, i, label) THEN None
    ELSE LET j == i + Len(label)
             k == SkipWhile(text, j, SepChars)
             e == SkipWhile(text, k, tok)
         IN  IF k > j /\ e > k THEN SubSeq(text, k, e - 1) ELSE None

RECURSIVE AltAt(_, _, _, _)
\* (l1|l2|...)[:\t ]+(tok+) matched at position i: the alternatives in order.
AltAt(text, i, labels, tok) ==
    IF labels = <<>> THEN None
    ELSE LET m == MatchAt(text, i, Head(labels), tok)
         IN  IF m # None THEN m ELSE AltAt(text, i, Tail(labels), tok)

RECURSIVE SearchFrom(_, _, _, _)
SearchFrom(text, i, labels, tok) ==
    IF i > Len(text) THEN None
    ELSE LET m == AltAt(text, i, labels, tok)
         IN  IF m # None THEN m ELSE SearchFrom(text, i + 1, labels, tok)

\* re.search(pattern, text, re.I): the token group of the leftmost match, or
\* None.
ReSearch(text, labels, tok) == SearchFrom(text, 1, labels, tok)

-----------------------------------------------------------------------------
(* parse_survey_page                                                       *)

\* A row of the returned table.  node is not a column: it records the
\* element of the document the row was read from.
Record(q, r, nd) == [question |-> q, response |-> r, node |-> nd]

Indexes(sp) == [i \in 1..Len(sp) |-> i]

\* soup.find_all("table"), as positions in the document.
FindTables(sp) ==
    LET IsTable(i) == sp[i].tag = "table"
    IN  SelectSeq(Indexes(sp), IsTable)

\* max(tables, key=lambda t: len(t.find_all("tr"))): the first table no
\* other table has more rows than.
BestTable(sp, tables) ==
    LET n(i) == Len(sp[tables[i]].rows)
        k == CHOOSE i \in 1..Len(tables) :
                 /\ \A j \in 1..Len(tables) : n(j) <= n(i)
                 /\ \A j \in 1..(i - 1) : n(j) < n(i)
    IN  tables[k]

\* The loop over best.find_all("tr"): the stripped cell texts of every row
\* that has a cell.
TableRows(tbl) ==
    LET cols(tr) == [c \in 1..Len(tr) |-> Strip(tr[c])]
        all == [r \in 1..Len(tbl.rows) |-> cols(tbl.rows[r])]
    IN  SelectSeq(all, NonEmpty)

\* pd.DataFrame(rows).shape[1]: the length of the longest row.
Shape1(rws) ==
    IF rws = <<>> THEN 0
    ELSE CHOOSE w \in {Len(rws[i]) : i \in 1..Len(rws)} :
             \A i \in 1..Len(rws) : Len(rws[i]) <= w

\* pd.DataFrame(rows).iloc[:, :2]: the first two columns of every row, a
\* shorter row padded with None.
FirstTwoColumns(rws, nd) ==
    [i \in 1..Len(rws) |->
        Record(rws[i][1], IF Len(rws[i]) >= 2 THEN rws[i][2] ELSE None, nd)]

RECURSIVE IndexOf(_, _, _)
\* The first position from k on holding c (0: none).
IndexOf(s, c, k) ==
    IF k > Len(s) THEN 0 ELSE IF s[k] = c THEN k ELSE IndexOf(s, c, k + 1)

RECURSIVE LastIndexOf(_, _, _)
\* The last position up to k holding c (0: none).
LastIndexOf(s, c, k) ==
    IF k < 1 THEN 0 ELSE IF s[k] = c THEN k ELSE LastIndexOf(s, c, k - 1)

\* The fallback loop splitting at the last colon (rsplit(":", 1)).
FreeTextItems_RSplit(sp) ==
    LET HasColon(i) == sp[i].tag \in {"p", "li"} /\ IndexOf(sp[i].text, ":", 1) > 0
        tags == SelectSeq(Indexes(sp), HasColon)
        item(i) == LET t == sp[i].text
                       k == LastIndexOf(t, ":", Len(t))
                   IN  Record(Strip(SubSeq(t, 1, k - 1)),
                              Strip(SubSeq(t, k + 1, Len(t))), i)
    IN  [j \in 1..Len(tags) |-> item(tags[j])]

\* The fallback loop over soup.find_all(["p", "li"]).
FreeTextItems(sp) ==
    LET HasColon(i) == sp[i].tag \in {"p", "li"} /\ IndexOf(sp[i].text, ":", 1) > 0
        tags == SelectSeq(Indexes(sp), HasColon)
        item(i) == LET t == sp[i].text
                       k == IndexOf(t, ":", 1)
                   IN  Record(Strip(SubSeq(t, 1, k - 1)),
                              Strip(SubSeq(t, k + 1, Len(t))), i)
    IN  [j \in 1..Len(tags) |-> item(tags[j])]

\* The fallback run without its guard "if survey is None".
SurveyRows_Unguarded(sp) ==
    LET tables == FindTables(sp)
        best == BestTable(sp, tables)
        rws == TableRows(sp[best])
    IN  (IF tables # <<>> /\ Shape1(rws) >= 2
         THEN FirstTwoColumns(rws, best) ELSE <<>>) \o FreeTextItems(sp)

\* Lines 66-91: the table of the largest table when it has two columns, else
\* the table of the colon-bearing paragraphs and list items.
SurveyRows(sp) ==
    LET tables == FindTables(sp)
        best == BestTable(sp, tables)
        rws == TableRows(sp[best])
    IN  IF tables # <<>> /\ Shape1(rws) >= 2
        THEN FirstTwoColumns(rws, best)
        ELSE FreeTextItems(sp)

\* The precedence reversed: the Sample ID / Barcode token before Biosample's.
Identifiers_SampleFirst(text) ==
    LET biosample == ReSearch(text, <<BiosampleLabel>>, TokChars)
        accession == ReSearch(text, <<AccessionLabel>>, TokDotChars)
        sample_id == ReSearch(text, <<SampleIdLabel, BarcodeLabel>>, TokDotChars)
    IN  [biosample_id |-> IF sample_id # None THEN sample_id
                          ELSE IF biosample # None THEN biosample ELSE None,
         accession_id |-> accession]

\* Lines 57-63: the page's identifiers.
Identifiers(text) ==
    LET biosample == ReSearch(text, <<BiosampleLabel>>, TokChars)
        accession == ReSearch(text, <<AccessionLabel>>, TokDotChars)
        sample_id == ReSearch(text, <<SampleIdLabel, BarcodeLabel>>, TokDotChars)
    IN  [biosample_id |-> IF biosample # None THEN biosample
                          ELSE IF sample_id # None THEN sample_id ELSE None,
         accession_id |-> accession]

\* The identifiers set on the first row only (survey.loc[0, ...] = ...).
Attach_FirstRow(rws, idents, u) ==
    [i \in 1..Len(rws) |->
        [question |-> rws[i].question, response |-> rws[i].response,
         node |-> rws[i].node,
         biosample_id |-> IF i = 1 THEN idents.biosample_id ELSE None,
         accession_id |-> IF i = 1 THEN idents.accession_id ELSE None,
         source_url |-> u]]

\* Lines 93-95: the three columns set on the whole table.
Attach(rws, idents, u) ==
    [i \in 1..Len(rws) |->
        [question |-> rws[i].question, response |-> rws[i].response,
         node |-> rws[i].node,
         biosample_id |-> idents.biosample_id,
         accession_id |-> idents.accession_id,
         source_url |-> u]]

parse_survey_page(sp, u) ==
    Attach(SurveyRows(sp), Identifiers(GetTextStripped(sp, <<" ">>)), u)

\* One call of parse_survey_page(soup, url).
Parse ==
    /\ pc = "parse"
    /\ survey' = parse_survey_page(soup, url)
    /\ pc' = "done"
    /\ UNCHANGED <<soup, url, sanVars, scrapeVars, excelVars, batchVars>>

-----------------------------------------------------------------------------
(* Documents with tables                                                   *)

\* Bounds: the rows of all the tables of a document together, and the cells
\* of a row.
MaxRows == 2
MaxCols == 3

DigitSeq == <<"0", "1", "2", "3", "4", "5", "6", "7", "8", "9">>

\* The text of cell c of row r of table t, with whitespace around it.
CellText(t, r, c) == <<" ", LowerCase[c], DigitSeq[t + 1], DigitSeq[r + 1], " ">>

\* A layout: for each table, for each of its rows, the number of its cells.
RECURSIVE Layouts(_)
Layouts(n) ==
    IF n = 0 THEN {<<>>}
    ELSE UNION {{<<t>> \o rest : t \in [1..k -> 0..MaxCols], rest \in Layouts(n - k)} :
                  k \in 1..n}

BuildTables(layout) ==
    [t \in 1..Len(layout) |->
        TableNode([r \in 1..Len(layout[t]) |->
                      [c \in 1..layout[t][r] |-> CellText(t, r, c)]])]

\* "BIOSAMPLE: S1 Accession\tA.1"
HeaderText ==
    <<"B", "I", "O", "S", "A", "M", "P", "L", "E", ":", " ", "S", "1", " ">>
    \o AccessionLabel \o <<"\t", "A", ".", "1">>

\* "Diet: Omnivore"
DietText == <<"D", "i", "e", "t", ":", " ", "O", "m", "n", "i", "v", "o", "r", "e">>

\* " a : b:c "
SpacedText == <<" ", "a", " ", ":", " ", "b", ":", "c", " ">>

Urls == {<<"u", "1">>, <<"u", "2">>}

TableDocs ==
    {hdr \o pre \o BuildTables(l) \o post :
        hdr \in {<<>>, <<TextNode("div", HeaderText)>>},
        pre \in {<<>>, <<TextNode("li", DietText)>>, <<TableNode(<<>>)>>},
        l \in UNION {Layouts(n) : n \in 0..MaxRows},
        post \in {<<>>, <<TextNode("p", SpacedText)>>}}

InitParse ==
    /\ pc = "parse"
    /\ soup \in TableDocs
    /\ url \in Urls
    /\ survey = None
    /\ IdleSan /\ IdleScrape /\ IdleExcel /\ IdleBatch

NextParse == Parse

SpecParse == InitParse /\ [][NextParse]_vars

(* ---- C1, C2, C10 ---- *)

TableSet(sp) == {i \in 1..Len(sp) : sp[i].tag = "table"}

\* Table b of the document has the most rows (the first such table when
\* several tie).
MostRows(sp, b) ==
    /\ b \in TableSet(sp)
    /\ \A j \in TableSet(sp) :
          /\ Len(sp[j].rows) <= Len(sp[b].rows)
          /\ j < b => Len(sp[j].rows) < Len(sp[b].rows)

\* The table with the most rows has a row of at least two cells.
TableQualifies(sp) ==
    \E b \in TableSet(sp) :
        MostRows(sp, b) /\ \E r \in 1..Len(sp[b].rows) : Len(sp[b].rows[r]) >= 2

\* The paragraphs and list items whose text has a colon.
ColonItems(sp) ==
    {i \in 1..Len(sp) :
        sp[i].tag \in {"p", "li"} /\ \E k \in 1..Len(sp[i].text) : sp[i].text[k] = ":"}

\* C1: the rows returned come from one strategy only: when the table with
\* the most rows has a row of two cells, every row comes from that table and
\* none from a paragraph or list item; otherwise the free-text strategy runs
\* and every row comes from a paragraph or list item.
C1_OneStrategy ==
    pc = "done" =>
        IF TableQualifies(soup)
        THEN /\ survey # <<>>
             /\ \A k \in 1..Len(survey) : MostRows(soup, survey[k].node)
        ELSE /\ \A k \in 1..Len(survey) : soup[survey[k].node].tag \in {"p", "li"}
             /\ {survey[k].node : k \in 1..Len(survey)} = ColonItems(soup)

\* The table strategy has won in a document that also has a colon-bearing
\* paragraph or list item, and a second table.
C1_Witness ==
    /\ pc = "done"
    /\ TableQualifies(soup)
    /\ ColonItems(soup) # {}
    /\ Cardinality(TableSet(soup)) >= 2
    /\ Len(survey) >= 1

\* C2: under the table strategy the records are the (first cell, second
\* cell) pairs of the rows of the selected table that have two cells or
\* more, in document order; no record lacks its response.
C2_TwoCellRowsOnly ==
    (pc = "done" /\ TableQualifies(soup)) =>
        LET b == CHOOSE i \in TableSet(soup) : MostRows(soup, i)
            TwoCells(tr) == Len(tr) >= 2
            kept == SelectSeq(soup[b].rows, TwoCells)
        IN  /\ Len(survey) = Len(kept)
            /\ \A k \in 1..Len(survey) :
                  /\ survey[k].question = Strip(kept[k][1])
                  /\ survey[k].response = Strip(kept[k][2])
                  /\ survey[k].response # None

\* C10: every record of the returned table carries the same biosample_id,
\* the same accession_id, and the url argument as source_url.
C10_SameMetadata ==
    pc = "done" =>
        \A k \in 1..Len(survey) :
            /\ survey[k].source_url = url
            /\ survey[k].biosample_id = survey[1].biosample_id
            /\ survey[k].accession_id = survey[1].accession_id

\* A table of two records with different questions and responses, with the
\* identifiers found in the page.
C10_Witness ==
    /\ pc = "done"
    /\ Len(survey) >= 2
    /\ survey[1].question # survey[2].question
    /\ survey[1].response # survey[2].response
    /\ survey[2].biosample_id = <<"S", "1">>
    /\ survey[2].accession_id = <<"A", ".", "1">>
    /\ survey[2].source_url = url

-----------------------------------------------------------------------------
(* Documents of paragraphs and list items                                  *)

\* Bounds: the p, li and div elements of a document, and the characters of
\* all their texts together.
MaxItems == 2
MaxChars == 3

TextChars == {"a", ":", " "}
ItemTags == {"p", "li", "div"}

\* The sequences of n texts of at most c characters together.
RECURSIVE ItemTexts(_, _)
ItemTexts(n, c) ==
    IF n = 0 THEN {<<>>}
    ELSE UNION {{<<t>> \o rest : t \in [1..k -> TextChars], rest \in ItemTexts(n - 1, c - k)} :
                  k \in 0..c}

\* A table of one row of one cell, "k:v": it does not qualify.
NarrowTable == TableNode(<< << <<"k", ":", "v">> >> >>)

TextDocs ==
    {pre \o [i \in 1..Len(ts) |-> TextNode(tg[i], ts[i])] :
        pre \in {<<>>, <<NarrowTable>>},
        ts \in UNION {ItemTexts(n, MaxChars) : n \in 0..MaxItems},
        tg \in [1..MaxItems -> ItemTags]}

InitText ==
    /\ pc = "parse"
    /\ soup \in TextDocs
    /\ url \in {<<"u", "1">>}
    /\ survey = None
    /\ IdleSan /\ IdleScrape /\ IdleExcel /\ IdleBatch

NextText == Parse

SpecText == InitText /\ [][NextText]_vars

(* ---- C3 ---- *)

\* out is s without its leading and trailing whitespace.
IsTrimOf(out, s) ==
    /\ out # <<>> => (out[1] \notin Whitespace /\ out[Len(out)] \notin Whitespace)
    /\ \E a \in 0..Len(s) :
          /\ a + Len(out) <= Len(s)
          /\ \A i \in 1..Len(out) : s[a + i] = out[i]
          /\ \A i \in 1..Len(s) : (i <= a \/ i > a + Len(out)) => s[i] \in Whitespace

\* (q, r) is text split at its first colon, both sides trimmed.
IsFirstColonSplit(q, r, text) ==
    \E k \in 1..Len(text) :
        /\ text[k] = ":"
        /\ \A i \in 1..(k - 1) : text[i] # ":"
        /\ IsTrimOf(q, SubSeq(text, 1, k - 1))
        /\ IsTrimOf(r, SubSeq(text, k + 1, Len(text)))

\* C3: under the free-text fallback the table has, in document order, exactly
\* one record per paragraph or list item whose text has a colon: the trimmed
\* text before its first colon and the trimmed text after it; elements
\* without a colon give no record, and none at all gives an empty table.
C3_FreeText ==
    (pc = "done" /\ ~TableQualifies(soup)) =>
        /\ Len(survey) = Cardinality(ColonItems(soup))
        /\ \A k \in 1..Len(survey) :
              /\ survey[k].node \in ColonItems(soup)
              /\ k > 1 => survey[k - 1].node < survey[k].node
              /\ IsFirstColonSplit(survey[k].question, survey[k].response,
                                   soup[survey[k].node].text)

\* Two colon-bearing elements, one with a second colon that stays in the
\* response, have given two records.
C3_Witness ==
    /\ pc = "done"
    /\ ~TableQualifies(soup)
    /\ Len(survey) = 2
    /\ \E k \in 1..2 : \E i \in 1..Len(survey[k].response) : survey[k].response[i] = ":"

-----------------------------------------------------------------------------
(* Documents of labels and tokens                                          *)

\* Bound: the list items of a document, each holding one label or token.
MaxLex == 4

Lexemes ==
    { BiosampleLabel,
      <<"b", "i", "o", "S", "A", "M", "P", "L", "E", ":">>,
      SampleIdLabel,
      <<"b", "a", "r", "c", "o", "d", "e", ":">>,
      AccessionLabel,
      <<"S", "_", "1">>,
      <<"7", ".", "2">>,
      <<".", "x">> }

LabelDocs ==
    {[i \in 1..Len(ls) |-> TextNode("li", ls[i])] : ls \in SeqsUpTo(Lexemes, MaxLex)}

InitIdent ==
    /\ pc = "parse"
    /\ soup \in LabelDocs
    /\ url \in {<<"u", "1">>}
    /\ survey = None
    /\ IdleSan /\ IdleScrape /\ IdleExcel /\ IdleBatch

NextIdent == Parse

SpecIdent == InitIdent /\ [][NextIdent]_vars

(* ---- C9 ---- *)

\* The positions right after an occurrence of the label (in any case).
LabelEnds(text, label) ==
    {i + Len(label) : i \in {i \in 1..Len(text) : LabelAt(text, i, label)}}

\* The positions where a token starts after the label and one separator or
\* more.
TokenStarts(text, label, tok) ==
    LET ends == LabelEnds(text, label)
    IN  {k \in 1..Len(text) :
            \E j \in ends :
                /\ j < k
                /\ \A m \in j..(k - 1) : text[m] \in SepChars
                /\ text[k] \in tok}

\* The text has the label followed by a token.
Present(text, label, tok) == TokenStarts(text, label, tok) # {}

\* id is the whole token that follows an occurrence of the label.
TokenAfter(text, label, tok, id) ==
    /\ id # None /\ id # <<>>
    /\ \E k \in TokenStarts(text, label, tok) :
          /\ k + Len(id) - 1 <= Len(text)
          /\ \A m \in 1..Len(id) : text[k + m - 1] = id[m] /\ id[m] \in tok
          /\ k + Len(id) <= Len(text) => text[k + Len(id)] \notin tok

\* C9: biosample_id is the token after a Biosample label when there is one,
\* else the token after a Sample ID or Barcode label, else None;
\* accession_id is the token after an Accession label, else None; labels
\* match in any case, and a missing identifier leaves the records in place.
C9_Identifiers ==
    pc = "done" =>
        LET text == GetTextStripped(soup, <<" ">>)
            bio == Present(text, BiosampleLabel, TokChars)
            sam == Present(text, SampleIdLabel, TokDotChars)
            bar == Present(text, BarcodeLabel, TokDotChars)
            acc == Present(text, AccessionLabel, TokDotChars)
        IN  /\ ~TableQualifies(soup) => Len(survey) = Cardinality(ColonItems(soup))
            /\ \A k \in 1..Len(survey) :
                  LET b == survey[k].biosample_id
                      a == survey[k].accession_id
                  IN  /\ bio => TokenAfter(text, BiosampleLabel, TokChars, b)
                      /\ (~bio /\ (sam \/ bar)) =>
                             \/ TokenAfter(text, SampleIdLabel, TokDotChars, b)
                             \/ TokenAfter(text, BarcodeLabel, TokDotChars, b)
                      /\ (~bio /\ ~sam /\ ~bar) => b = None
                      /\ acc => TokenAfter(text, AccessionLabel, TokDotChars, a)
                      /\ ~acc => a = None

\* A page with a lower-case barcode label and a mixed-case Biosample label,
\* both with tokens, and no Accession label: the record carries the
\* Biosample token and no accession.
C9_Witness ==
    /\ pc = "done"
    /\ Len(survey) >= 1
    /\ Present(GetTextStripped(soup, <<" ">>), BarcodeLabel, TokDotChars)
    /\ survey[1].biosample_id = <<"S", "_", "1">>
    /\ survey[1].question = <<"b", "i", "o", "S", "A", "M", "P", "L", "E">>
    /\ survey[1].accession_id = None

-----------------------------------------------------------------------------
(* scrape_topic                                                            *)

\* A row of DEMO_DATA (lines 16-22); it comes from no document.
DemoRow(q, r) ==
    [question |-> q, response |-> r, node |-> 0,
     biosample_id |-> <<"A", "G", "P", "1", "2", "3", "4", "5", "6">>,
     accession_id |-> <<"A", "C", "C", "-", "9", "8", "7", "6", "5">>,
     source_url |-> <<"d", "e", "m", "o", ":", "/", "/", "a", "g", "p", "/", "d", "e", "m", "o", "1">>]

DEMO_DATA ==
    << DemoRow(<<"D", "i", "e", "t", " ", "t", "y", "p", "e">>,
               <<"O", "m", "n", "i", "v", "o", "r", "e">>),
       DemoRow(<<"A", "l", "c", "o", "h", "o", "l", " ", "c", "o", "n", "s", "u", "m", "p", "t", "i", "o", "n">>,
               <<"N", "e", "v", "e", "r">>),
       DemoRow(<<"S", "m", "o", "k", "i", "n", "g", " ", "s", "t", "a", "t", "u", "s">>,
               <<"F", "o", "r", "m", "e", "r">>),
       DemoRow(<<"P", "e", "t", " ", "o", "w", "n", "e", "r", "s", "h", "i", "p">>,
               <<"D", "o", "g">>) >>

\* Bound: the search results of one run.
MaxPages == 3

\* What the pages fetched hold: nothing to extract, one list item, or a
\* header and a table of two rows of two cells.
PageSoups ==
    { <<>>,
      <<TextNode("div", DietText)>>,
      <<TextNode("li", DietText)>>,
      <<TextNode("div", HeaderText)>> \o BuildTables(<< <<2, 2>> >>) }

\* A search result: its url, the document behind it, and whether fetching
\* or parsing it raises.
Pages ==
    {[url |-> u, soup |-> sp, raises |-> "none"] : u \in {<<"u", "1">>}, sp \in PageSoups}
    \cup {[url |-> u, soup |-> <<>>, raises |-> r] : u \in Urls, r \in {"fetch", "parse"}}

InitScrape ==
    /\ pc = "search"
    /\ pages \in SeqsUpTo(Pages, MaxPages)
    /\ page_i = 1
    /\ rows = <<>>
    /\ fetched = <<>>
    /\ result = None
    /\ IdleSan /\ IdleParse /\ IdleExcel /\ IdleBatch

notScrape == <<sanVars, parseVars, excelVars, batchVars>>

\* Lines 101-106: the search has returned; no result gives the demo data.
AfterSearch ==
    /\ pc = "search"
    /\ IF pages = <<>>
       THEN pc' = "done" /\ result' = DEMO_DATA
       ELSE pc' = "loop" /\ result' = result
    /\ UNCHANGED <<pages, page_i, rows, fetched, notScrape>>

\* The loop without its try/except: the exception leaves scrape_topic.
FetchRaises_Propagates ==
    /\ pc = "loop" /\ page_i <= Len(pages)
    /\ pages[page_i].raises = "fetch"
    /\ fetched' = Append(fetched, page_i)
    /\ pc' = "raised"
    /\ UNCHANGED <<page_i, pages, rows, result, notScrape>>

\* Lines 108-113: fetch_page raises; the page is passed over.
FetchRaises ==
    /\ pc = "loop" /\ page_i <= Len(pages)
    /\ pages[page_i].raises = "fetch"
    /\ fetched' = Append(fetched, page_i)
    /\ page_i' = page_i + 1
    /\ UNCHANGED <<pc, pages, rows, result, notScrape>>

\* Lines 108-113: parse_survey_page raises; the page is passed over.
ParseRaises ==
    /\ pc = "loop" /\ page_i <= Len(pages)
    /\ pages[page_i].raises = "parse"
    /\ fetched' = Append(fetched, page_i)
    /\ page_i' = page_i + 1
    /\ UNCHANGED <<pc, pages, rows, result, notScrape>>

\* Lines 108-111: the page is fetched and parsed, its table kept.
PageParsed ==
    /\ pc = "loop" /\ page_i <= Len(pages)
    /\ pages[page_i].raises = "none"
    /\ fetched' = Append(fetched, page_i)
    /\ rows' = Append(rows, parse_survey_page(pages[page_i].soup, pages[page_i].url))
    /\ page_i' = page_i + 1
    /\ UNCHANGED <<pc, pages, result, notScrape>>

\* Lines 115-118: the loop is over; pd.concat of the tables kept, or the
\* demo data when the list is empty.
Return ==
    /\ pc = "loop" /\ page_i > Len(pages)
    /\ result' = IF rows # <<>> THEN Flatten(rows) ELSE DEMO_DATA
    /\ pc' = "done"
    /\ UNCHANGED <<pages, page_i, rows, fetched, notScrape>>

NextScrape == AfterSearch \/ FetchRaises \/ ParseRaises \/ PageParsed \/ Return

SpecScrape == InitScrape /\ [][NextScrape]_vars

(* ---- C4, C5 ---- *)

\* The search results whose fetch and parse succeed, in search order.
Succeeded ==
    LET Ok(i) == pages[i].raises = "none"
    IN  SelectSeq([i \in 1..Len(pages) |-> i], Ok)

\* C4: a page whose fetch or parse raises is passed over: no exception
\* leaves the loop, every search result is fetched, in order, and when a
\* page succeeds the result is the tables of the pages that succeeded, one
\* after the other in search order.
C4_PageFailuresIsolated ==
    /\ pc # "raised"
    /\ pc = "done" =>
          /\ fetched = [i \in 1..Len(pages) |-> i]
          /\ Succeeded # <<>> =>
                result = Flatten([k \in 1..Len(Succeeded) |->
                                     parse_survey_page(pages[Succeeded[k]].soup,
                                                       pages[Succeeded[k]].url)])

\* A fetch failed before two pages that gave records; both tables are in the
\* result.
C4_Witness ==
    /\ pc = "done"
    /\ Len(pages) = 3
    /\ pages[1].raises = "fetch"
    /\ Len(Succeeded) = 2
    /\ Len(result) >= 3
    /\ result[1].node # result[Len(result)].node

\* No search result succeeded with a record.
NoUsableRows ==
    \A i \in 1..Len(pages) :
        pages[i].raises = "none" =>
            parse_survey_page(pages[i].soup, pages[i].url) = <<>>

\* C5: scrape_topic returns the demo data whenever scraping gives no usable
\* row (no search result, every page failing, or the pages that succeed
\* holding no record), and never an empty table.
C5_DemoWhenNoRows ==
    pc = "done" =>
        /\ result # <<>>
        /\ NoUsableRows => result = DEMO_DATA

-----------------------------------------------------------------------------
(* filter_responses and export_excel                                       *)

\* Bounds: the rows of the scraped table, and the n of filter_responses.
MaxRecords == 2
MaxN == 2

\* Urls that differ in an invalid character only, and urls that differ
\* beyond the 31st character of the key only.
SheetUrls ==
    { <<"a", "/", "b">>, <<"a", "?", "b">>,
      Rep("x", SheetNameLimit - 2) \o <<"1">>, Rep("x", SheetNameLimit - 2) \o <<"2">> }

RawRows ==
    {[question |-> <<"q">>, response |-> r, biosample_id |-> i[1],
      accession_id |-> i[2], source_url |-> u] :
        r \in {<<"O", "m">>, <<"v">>, None},
        i \in {<<None, None>>, <<<<"S">>, <<"A">>>>},
        u \in SheetUrls}

\* s.lower()
LowerStr(s) == [i \in 1..Len(s) |-> Lower(s[i])]

\* sub in s
Contains(s, sub) ==
    \E a \in 0..(Len(s) - Len(sub)) : \A i \in 1..Len(sub) : s[a + i] = sub[i]

\* .fillna("")
FillNa(v) == IF v = None THEN <<>> ELSE v

\* Lines 125-127: the composite key of a row.
CompositeId(r) ==
    FillNa(r.biosample_id) \o <<"_">> \o FillNa(r.accession_id) \o <<"_">>
        \o FillNa(r.source_url)

RECURSIVE Unique(_)
\* Series.unique(): the values in order of first appearance.
Unique(s) ==
    IF s = <<>> THEN <<>>
    ELSE LET rest == Unique(SubSeq(s, 1, Len(s) - 1))
             last == s[Len(s)]
         IN  IF \E i \in 1..Len(rest) : rest[i] = last THEN rest ELSE Append(rest, last)

\* filter_responses(df, contains, n): the rows whose response contains the
\* text (in any case; a missing response does not), with their key, of the
\* first n keys.
filter_responses(table, contains, n) ==
    LET c == LowerStr(contains)
        Match(r) == r.response # None /\ Contains(LowerStr(r.response), c)
        keep0 == SelectSeq(table, Match)
        keep == [i \in 1..Len(keep0) |->
                    [question |-> keep0[i].question, response |-> keep0[i].response,
                     biosample_id |-> keep0[i].biosample_id,
                     accession_id |-> keep0[i].accession_id,
                     source_url |-> keep0[i].source_url,
                     id |-> CompositeId(keep0[i])]]
        idents == Prefix(Unique([i \in 1..Len(keep) |-> keep[i].id]), n)
        IsIn(r) == \E i \in 1..Len(idents) : idents[i] = r.id
    IN  SelectSeq(keep, IsIn)

\* The characters of the keys, in code point order.
CodeOrder == <<"-", ".", "/", "1", "2", "?", "A", "S", "_", "a", "b", "x">>

Code(c) == CHOOSE i \in 1..Len(CodeOrder) : CodeOrder[i] = c

RECURSIVE StrLess(_, _)
\* a < b on str
StrLess(a, b) ==
    IF b = <<>> THEN FALSE
    ELSE IF a = <<>> THEN TRUE
    ELSE IF Head(a) = Head(b) THEN StrLess(Tail(a), Tail(b))
    ELSE Code(Head(a)) < Code(Head(b))

\* df.groupby("id"): the distinct keys, sorted.
GroupKeys(table) == SortSeq(Unique([i \in 1..Len(table) |-> table[i].id]), StrLess)

InitExcel ==
    /\ pc = "filter"
    /\ df \in SeqsUpTo(RawRows, MaxRecords)
    /\ groups = <<>>
    /\ sheets = <<>>
    /\ IdleSan /\ IdleParse /\ IdleScrape /\ IdleBatch

notExcel == <<sanVars, parseVars, scrapeVars, batchVars>>

\* Line 190, then lines 133-139: the table is filtered and export_excel
\* starts on its groups.
Filter ==
    /\ pc = "filter"
    /\ \E contains \in {<<>>, <<"o">>}, n \in 1..MaxN :
          LET kept == filter_responses(df, contains, n)
          IN  df' = kept /\ groups' = GroupKeys(kept)
    /\ pc' = "export"
    /\ UNCHANGED <<sheets, notExcel>>

\* A worksheet of that name is in the workbook (names compare in any case).
SheetNameUsed(sh) == \E i \in 1..Len(sheets) : LowerStr(sheets[i]) = LowerStr(sh)

\* Lines 139-144: the next group gets its worksheet.
AddWorksheet ==
    /\ pc = "export" /\ groups # <<>>
    /\ LET sh == sanitize_sheet_name(Head(groups))
       IN  /\ ~SheetNameUsed(sh)
           /\ sheets' = Append(sheets, sh)
    /\ groups' = Tail(groups)
    /\ UNCHANGED <<pc, df, notExcel>>

\* Line 141: add_worksheet raises for a name the workbook already has, and
\* the exception leaves export_excel.
AddWorksheetRaises ==
    /\ pc = "export" /\ groups # <<>>
    /\ SheetNameUsed(sanitize_sheet_name(Head(groups)))
    /\ pc' = "raised"
    /\ UNCHANGED <<df, groups, sheets, notExcel>>

\* Lines 146-148: the workbook is closed and returned.
CloseWorkbook ==
    /\ pc = "export" /\ groups = <<>>
    /\ pc' = "done"
    /\ UNCHANGED <<df, groups, sheets, notExcel>>

NextExcel == Filter \/ AddWorksheet \/ AddWorksheetRaises \/ CloseWorkbook

SpecExcel == InitExcel /\ [][NextExcel]_vars

(* ---- C7 ---- *)

KeySet == {df[i].id : i \in 1..Len(df)}

\* C7: export_excel writes one worksheet per group: two distinct composite
\* keys of the filtered table never get the same sheet name, and the
\* worksheets written are as many as the distinct keys.
C7_OneSheetPerGroup ==
    pc \in {"export", "done", "raised"} =>
        /\ \A k1, k2 \in KeySet :
              k1 # k2 => sanitize_sheet_name(k1) # sanitize_sheet_name(k2)
        /\ pc # "raised"
        /\ pc = "done" => Len(sheets) = Cardinality(KeySet)

-----------------------------------------------------------------------------
(* biosample_scraper.py: main                                              *)

\* A row of the table written.
OutRow(b, q, r) == [biosample_id |-> b, question |-> q, response |-> r]

DietType == <<"D", "i", "e", "t", " ", "t", "y", "p", "e">>

\* DEMO_DF (lines 22-26)
DEMO_DF ==
    << OutRow(<<"D", "E", "M", "O", "1">>, DietType, <<"O", "m", "n", "i", "v", "o", "r", "e">>),
       OutRow(<<"D", "E", "M", "O", "2">>, DietType, <<"V", "e", "g", "e", "t", "a", "r", "i", "a", "n">>),
       OutRow(<<"D", "E", "M", "O", "3">>, DietType, <<"V", "e", "g", "a", "n">>) >>

\* len(sys.argv) of a run with two positional arguments (line 32).
ArgvLen == 3

\* Bound: the lines of the input file.
MaxLines == 3

InputLines ==
    { <<"S", "1", "\n">>, <<"S", "2", "\n">>, <<" ", "S", "1", " ", "\n">>,
      <<"\n">>, <<" ", "\t", "\n">> }

InitBatch ==
    /\ pc = "main"
    /\ argv \in {ArgvLen - 1, ArgvLen, ArgvLen + 1}
    /\ lines \in SeqsUpTo(InputLines, MaxLines)
    /\ ids = <<>>
    /\ id_i = 1
    /\ output_rows = <<>>
    /\ csv = None
    /\ IdleSan /\ IdleParse /\ IdleScrape /\ IdleExcel

notBatch == <<sanVars, parseVars, scrapeVars, excelVars>>

\* Lines 32-34: the wrong number of arguments: usage, exit status 1.
Usage ==
    /\ pc = "main" /\ argv # ArgvLen
    /\ pc' = "exit1"
    /\ UNCHANGED <<argv, lines, ids, id_i, output_rows, csv, notBatch>>

\* Lines 40-41: the stripped lines that are not blank.
ReadIds ==
    /\ pc = "main" /\ argv = ArgvLen
    /\ ids' = LET stripped == [i \in 1..Len(lines) |-> Strip(lines[i])]
              IN  SelectSeq(stripped, NonEmpty)
    /\ pc' = "loop"
    /\ UNCHANGED <<argv, lines, id_i, output_rows, csv, notBatch>>

\* Lines 48-56: one identifier gets the demo responses.
ProcessId ==
    /\ pc = "loop" /\ id_i <= Len(ids)
    /\ output_rows' = output_rows \o
           [d \in 1..Len(DEMO_DF) |->
               OutRow(ids[id_i], DEMO_DF[d].question, DEMO_DF[d].response)]
    /\ id_i' = id_i + 1
    /\ UNCHANGED <<pc, argv, lines, ids, csv, notBatch>>

\* pd.DataFrame(output_rows).columns: the keys of the rows; none of no row.
Columns(rws) ==
    IF rws = <<>> THEN <<>> ELSE <<"biosample_id", "question", "response">>

\* Lines 59-60: the table is written.
SaveCsv ==
    /\ pc = "loop" /\ id_i > Len(ids)
    /\ csv' = [columns |-> Columns(output_rows), rows |-> output_rows]
    /\ pc' = "done"
    /\ UNCHANGED <<argv, lines, ids, id_i, output_rows, notBatch>>

NextBatch == Usage \/ ReadIds \/ ProcessId \/ SaveCsv

SpecBatch == InitBatch /\ [][NextBatch]_vars

(* ---- C8 ---- *)

\* The positions of the lines that are not blank, in input order.
NonBlank ==
    LET Ok(i) == ~AllIn(lines[i], Whitespace)
    IN  SelectSeq([i \in 1..Len(lines) |-> i], Ok)

\* C8: run with two arguments, the script writes for any input file a CSV
\* with the columns biosample_id, question, response and one row per
\* (identifier, demo row) pair: the identifiers in input order, the demo rows
\* in demo order inside each, every row with its identifier, and blank lines
\* giving no row.
C8_CsvRows ==
    pc = "done" =>
        /\ csv.columns = <<"biosample_id", "question", "response">>
        /\ Len(csv.rows) = Len(NonBlank) * Len(DEMO_DF)
        /\ \A i \in 1..Len(NonBlank) : \A d \in 1..Len(DEMO_DF) :
              LET row == csv.rows[(i - 1) * Len(DEMO_DF) + d]
              IN  /\ IsTrimOf(row.biosample_id, lines[NonBlank[i]])
                  /\ row.question = DEMO_DF[d].question
                  /\ row.response = DEMO_DF[d].response

====
